---------------------------- MODULE Spec2Model ----------------------------
(***************************************************************************)
(* Two nodes running the BLE counter-synchronisation firmware of           *)
(* src/src/BLESync.cpp.  Every node is at once a GATT server (advertiser)  *)
(* and a GATT client (scanner / initiator).                                *)
(*                                                                         *)
(* node[n] holds the module-level globals of BLESync.cpp under their       *)
(* source names, the locals of BLESync_loop that live across its blocking  *)
(* calls (currentTime, the position pc), and the node's side of the radio  *)
(* (advertising, scanning, the BLE task that runs the callbacks, the       *)
(* published characteristic values, the stack events whose callback has    *)
(* not run yet).  link[n] is the state of n's outbound (client side)       *)
(* connection to its peer.  now is real time in ms; millis() on node n is  *)
(* now - bootTime[n] as an unsigned 32-bit value.  env is the environment: *)
(* how many resets, radio faults, lost connections and advertisement      *)
(* reports it may still cause, and until when the run is followed; it also *)
(* remembers which node it reset last and which nodes completed a          *)
(* negotiation since.                                                      *)
(*                                                                         *)
(* Scheduling: the BLE task of a node runs the callbacks and pre-empts the *)
(* node's loop task; the loop task is cut at the points named below.  Time *)
(* passes only between loop iterations and inside blocking radio calls     *)
(* (scan window, delay() in the scan callback, connect / discovery /       *)
(* read).                                                                  *)
(***************************************************************************)
EXTENDS Integers, Naturals, Sequences, FiniteSets, TLC

VARIABLES node, link, now, bootTime, env

vars == <<node, link, now, bootTime, env>>

---------------------------------------------------------------------------
(* Program constants (BLESync.cpp 19-24, 84, 158).                         *)
COUNTER_INTERVAL == 3000
SYNC_INTERVAL == 10000
SCAN_TIME == 3
RESCAN_INTERVAL == 10000
CONNECTION_TIMEOUT == 10000
COLLISION_DELAY == 1000
JITTER_MIN == 200
JITTER_MAX == 1200

(* Bounds of the model.  Time advances in steps of the collision delay.    *)
(* Short runs with a lively environment (a reset, or radio faults and a    *)
(* lost connection) follow discovery, negotiation and teardown; a long run *)
(* with a quiet one reaches the first sync period and the tick after it.   *)
TimeStep == COLLISION_DELAY
MaxReboots == 1
MaxFaults == 1
MaxLosses == 1
MaxHeard == 3
PairHeard == 2
MaxRpcWait == 1
MaxBootSkew == 1
ShortRun == COUNTER_INTERVAL + 2 * TimeStep
LongRun == SYNC_INTERVAL + COUNTER_INTERVAL + TimeStep

Budget(r, f, l, h, until) ==
  [reboots |-> r, faults |-> f, losses |-> l, heard |-> h, horizon |-> until,
   rebooted |-> 0, negotiated |-> {}, writes |-> TRUE, rpcWait |-> MaxRpcWait]

Scenarios ==
  { Budget(MaxReboots, 0, 0, MaxHeard, ShortRun),
    Budget(0, MaxFaults, MaxLosses, PairHeard, ShortRun),
    Budget(0, 0, 0, PairHeard, LongRun) }

(* The environment of a pair that is disturbed only by the loss of a       *)
(* connection: no reset, no other radio fault, advertisements enough to    *)
(* pair and to pair again.                                                 *)
RecoveryScenario == Budget(0, 0, MaxLosses, 2 * PairHeard, ShortRun)

(* A slow radio: the blocking calls of a connect attempt may take longer   *)
(* than the connect deadline.                                              *)
SlowRpcWait == CONNECTION_TIMEOUT \div TimeStep + 1
DeadlineRun == CONNECTION_TIMEOUT + 3 * TimeStep
SlowScenario ==
  [Budget(0, 0, 0, 1, DeadlineRun) EXCEPT !.rpcWait = SlowRpcWait]

(* A node that is switched on when the other has counted for a rescan      *)
(* period, followed for a sync period and a tick more; the radio delivers  *)
(* the MASTER's sync writes, or loses every one of them.                   *)
LateBootTime == RESCAN_INTERVAL
ConvergeRun == LateBootTime + SYNC_INTERVAL + COUNTER_INTERVAL
ConvergeScenarios ==
  { [Budget(0, 0, 0, PairHeard, ConvergeRun) EXCEPT !.writes = w] : w \in BOOLEAN }

Nodes == {1, 2}

Peer(n) == 3 - n

(* Radio addresses as the character strings the code compares.            *)
MacOf(n) == IF n = 1 THEN <<10, 10, 0, 1>> ELSE <<10, 10, 0, 2>>

NoDevice == 0

(* Arduino String operator< : strcmp-style lexicographic comparison.       *)
RECURSIVE LexLess(_, _)
LexLess(a, b) ==
  IF b = <<>> THEN FALSE
  ELSE IF a = <<>> THEN TRUE
  ELSE IF Head(a) < Head(b) THEN TRUE
  ELSE IF Head(a) > Head(b) THEN FALSE
  ELSE LexLess(Tail(a), Tail(b))

(* uint32_t / unsigned long values are held as the 32-bit two's complement *)
(* integer with the same bit pattern: 0 .. 2^31-1 as themselves, 2^31 ..   *)
(* 2^32-1 as the negative numbers -2^31 .. -1.  Addition and subtraction   *)
(* modulo 2^32 are then integer addition and subtraction wrapped into      *)
(* -2^31 .. 2^31-1, and the unsigned order puts the negative numbers last. *)
IntMax == 2147483647

Wrap32(x) ==
  IF x > IntMax THEN (x - IntMax) - IntMax - 2
  ELSE IF x < -IntMax - 1 THEN (x + IntMax) + IntMax + 2
  ELSE x

Sub32(a, b) == Wrap32(a - b)

Inc32(a) == IF a = IntMax THEN -IntMax - 1 ELSE a + 1

(* Unsigned a < b, a >= b, a > b.                                          *)
LtU(a, b) == IF (a < 0) = (b < 0) THEN a < b ELSE b < 0

GeU(a, b) == ~LtU(a, b)

GtU(a, b) == LtU(b, a)

(* millis() on node n.                                                     *)
Millis(n) == Wrap32(now - bootTime[n])

(* random(200, 1200): the extreme values of the half-open range.           *)
JitterValues == {JITTER_MIN, JITTER_MAX - 1}

---------------------------------------------------------------------------
(* State of a node after BLESync_setup() at uptime t.                      *)
SetupNode(t) ==
  [ localCounter |-> 0,
    lastCounterUpdate |-> 0,
    lastSyncTime |-> 0,
    lastScanAttempt |-> t,
    isMaster |-> FALSE,
    isClient |-> FALSE,
    roleAssigned |-> FALSE,
    serverConnected |-> FALSE,
    clientConnected |-> FALSE,
    doConnect |-> FALSE,
    doScan |-> TRUE,
    doRoleNegotiation |-> FALSE,
    inboundWithoutRole |-> FALSE,
    connectAttemptStartTime |-> 0,
    targetDevice |-> NoDevice,
    randomScanDelay |-> 0,
    scanDelayStart |-> 0,
    pClient |-> FALSE,
    pRemoteService |-> FALSE,
    pRemoteCounterCharacteristic |-> FALSE,
    pRemoteSyncCharacteristic |-> FALSE,
    pRemoteTimestampCharacteristic |-> FALSE,
    counterChar |-> 0,
    counterCharLen |-> 0,
    timestampChar |-> t,
    advertising |-> TRUE,
    scanning |-> FALSE,
    scanStart |-> 0,
    bleTask |-> "idle",
    delayStart |-> 0,
    evClientDisc |-> FALSE,
    evServerDisc |-> FALSE,
    currentTime |-> 0,
    currentUptime |-> 0,
    remoteUptime |-> 0,
    foundAt |-> -1,
    syncPacket |-> [counter |-> 0, timeSinceLastUpdate |-> 0],
    syncTime |-> -1,
    waited |-> 0,
    pc |-> "top" ]

(* A node without power.                                                   *)
PoweredOff ==
  [SetupNode(0) EXCEPT !.doScan = FALSE, !.advertising = FALSE, !.pc = "off"]

Init ==
  /\ node = [n \in Nodes |-> PoweredOff]
  /\ link = [n \in Nodes |-> "down"]
  /\ now = 0
  /\ bootTime = [n \in Nodes |-> 0]
  /\ env \in Scenarios

---------------------------------------------------------------------------
(* The callbacks, as functions of the node's state s.  t is millis() at   *)
(* the moment the callback runs, j the value random(200, 1200) returns.    *)

(* MyServerCallbacks::onConnect.  inboundWithoutRole records, until the    *)
(* loop handles doRoleNegotiation, whether the connection arrived while    *)
(* the node had no role; the code has no such variable.                    *)
MyServerCallbacks_onConnect(s, t) ==
  [s EXCEPT !.serverConnected = TRUE,
            !.timestampChar = t,
            !.doRoleNegotiation = TRUE,
            !.inboundWithoutRole = ~s.roleAssigned]

(* MyServerCallbacks::onDisconnect                                         *)
MyServerCallbacks_onDisconnect(s, t, j) ==
  LET s1 == [s EXCEPT !.serverConnected = FALSE]
      s2 == IF s1.roleAssigned /\ s1.isMaster
            THEN [s1 EXCEPT !.roleAssigned = FALSE,
                            !.isMaster = FALSE,
                            !.isClient = FALSE,
                            !.randomScanDelay = j,
                            !.scanDelayStart = t]
            ELSE s1
  IN [s2 EXCEPT !.advertising = TRUE]

(* An outbound disconnect that withdraws roleAssigned but leaves the role   *)
(* flags as they are.                                                      *)
MyClientCallback_onDisconnect_KeepsFlags(s, t, j) ==
  [s EXCEPT !.clientConnected = FALSE,
            !.roleAssigned = FALSE,
            !.randomScanDelay = IF s.roleAssigned THEN j ELSE @,
            !.scanDelayStart = IF s.roleAssigned THEN t ELSE @,
            !.pRemoteService = FALSE,
            !.pRemoteCounterCharacteristic = FALSE,
            !.pRemoteSyncCharacteristic = FALSE,
            !.pRemoteTimestampCharacteristic = FALSE,
            !.targetDevice = NoDevice,
            !.advertising = TRUE]

(* MyClientCallback::onDisconnect                                          *)
MyClientCallback_onDisconnect(s, t, j) ==
  LET s1 == [s EXCEPT !.clientConnected = FALSE]
      s2 == IF s1.roleAssigned
            THEN [s1 EXCEPT !.roleAssigned = FALSE,
                            !.isMaster = FALSE,
                            !.isClient = FALSE,
                            !.randomScanDelay = j,
                            !.scanDelayStart = t]
            ELSE s1
  IN [s2 EXCEPT !.pRemoteService = FALSE,
                !.pRemoteCounterCharacteristic = FALSE,
                !.pRemoteSyncCharacteristic = FALSE,
                !.pRemoteTimestampCharacteristic = FALSE,
                !.targetDevice = NoDevice,
                !.advertising = TRUE]

(* A sync ingestion that adopts the counter but not the phase.             *)
MySyncCallback_onWrite_NoPhase(s, t, pkt) ==
  [s EXCEPT !.syncPacket = pkt,
            !.syncTime = t,
            !.localCounter = pkt.counter,
            !.lastCounterUpdate = t]

(* MySyncCallback::onWrite for an 8-byte value                             *)
(* [counter, timeSinceLastUpdate].                                         *)
MySyncCallback_onWrite(s, t, pkt) ==
  [s EXCEPT !.syncPacket = pkt,
            !.syncTime = t,
            !.localCounter = pkt.counter,
            !.lastCounterUpdate = Sub32(t, pkt.timeSinceLastUpdate)]

(* memcpy(&syncPacket, value.data(), 8) at line 129, for a value of any    *)
(* length: the value is a sequence of 32-bit words; the words the value    *)
(* does not have are read from behind its end and are whatever the memory  *)
(* there holds (stray); words beyond the second are not looked at.         *)
DecodeSyncPacket(value, stray) ==
  [counter |-> IF Len(value) >= 1 THEN value[1] ELSE stray[1],
   timeSinceLastUpdate |-> IF Len(value) >= 2 THEN value[2] ELSE stray[2]]

(* MySyncCallback::onWrite for a written value of any length: the length   *)
(* is not looked at.                                                       *)
MySyncCallback_onWriteValue(s, t, value, stray) ==
  MySyncCallback_onWrite(s, t, DecodeSyncPacket(value, stray))

(* The guard of MyAdvertisedDeviceCallbacks::onResult for an               *)
(* advertisement that carries the service UUID.                            *)
OnResultAccepts(s) ==
  ~s.clientConnected \/ (s.serverConnected /\ ~s.roleAssigned)

(* onResult up to the collision delay: stop the scan, replace the peer     *)
(* record.                                                                 *)
OnResultStash(s, dev) ==
  [s EXCEPT !.scanning = FALSE, !.targetDevice = dev, !.foundAt = now]

(* onResult after the collision delay.                                     *)
OnResultMark(s) ==
  [s EXCEPT !.doConnect = TRUE, !.doScan = FALSE]

---------------------------------------------------------------------------
(* Functions of BLESync.cpp called from the loop.                          *)

PerformRoleNegotiationForces(s) == s.serverConnected /\ ~s.roleAssigned

performRoleNegotiation(s) ==
  IF ~PerformRoleNegotiationForces(s) THEN s
  ELSE [s EXCEPT !.serverConnected = FALSE,
                 !.roleAssigned = FALSE,
                 !.isMaster = FALSE,
                 !.isClient = FALSE,
                 !.doScan = TRUE]

(* resetConnectionState: exported, with no caller in the repository.       *)
resetConnectionState(s) ==
  LET s1 == [s EXCEPT !.pClient = FALSE,
                      !.pRemoteService = FALSE,
                      !.pRemoteCounterCharacteristic = FALSE,
                      !.pRemoteSyncCharacteristic = FALSE,
                      !.pRemoteTimestampCharacteristic = FALSE,
                      !.targetDevice = NoDevice,
                      !.clientConnected = FALSE,
                      !.doConnect = FALSE]
      s2 == IF s1.roleAssigned
            THEN [s1 EXCEPT !.roleAssigned = FALSE,
                            !.isMaster = FALSE,
                            !.isClient = FALSE]
            ELSE s1
  IN [s2 EXCEPT !.advertising = TRUE, !.doScan = TRUE]

(* A role decision that differs from the code's on a tie: the node with    *)
(* the smaller address loses.                                              *)
DecideMaster_TieLost(currentUptime, remoteUptime, localMac, remoteMac) ==
  IF GtU(currentUptime, remoteUptime) THEN TRUE
  ELSE IF LtU(currentUptime, remoteUptime) THEN FALSE
  ELSE ~LexLess(localMac, remoteMac)

(* The role decision of connectToServer: TRUE for MASTER, FALSE for CLIENT.*)
DecideMaster(currentUptime, remoteUptime, localMac, remoteMac) ==
  IF GtU(currentUptime, remoteUptime) THEN TRUE
  ELSE IF LtU(currentUptime, remoteUptime) THEN FALSE
  ELSE LexLess(localMac, remoteMac)

(* connectToServer from the timestamp read on, when the read returned      *)
(* 4 bytes.                                                                *)
AssignRole(s, master) ==
  LET s1 == [s EXCEPT !.isMaster = master,
                      !.isClient = ~master,
                      !.roleAssigned = TRUE]
  IN IF s1.isClient
     THEN [s1 EXCEPT !.advertising = FALSE,
                     !.clientConnected = TRUE,
                     !.serverConnected = FALSE,
                     !.scanning = FALSE,
                     !.doScan = FALSE]
     ELSE [s1 EXCEPT !.doScan = FALSE,
                     !.clientConnected = TRUE,
                     !.scanning = FALSE,
                     !.doConnect = FALSE,
                     !.advertising = TRUE]

updateCounter(s) ==
  LET c == IF ~s.roleAssigned \/ s.isMaster \/ s.isClient
           THEN Inc32(s.localCounter)
           ELSE s.localCounter
  IN [s EXCEPT !.localCounter = c, !.counterChar = c, !.counterCharLen = 4]

(* updateCounter when a disconnect callback, running on the BLE task,      *)
(* clears the role after updateCounter read roleAssigned as true (line     *)
(* 358) and before it reads isMaster and isClient (lines 362, 365): no     *)
(* branch increments, the unchanged counter is published.                  *)
updateCounterTorn(s) ==
  [s EXCEPT !.counterChar = s.localCounter, !.counterCharLen = 4]

(* The guard of performSync together with the loop's guard before it.      *)
SyncGuard(s) ==
  s.clientConnected /\ s.roleAssigned /\ s.pRemoteSyncCharacteristic

(* A packet that carries the counter and no time since the last tick.      *)
SyncPacket_NoPhase(s, t) ==
  [counter |-> s.localCounter, timeSinceLastUpdate |-> 0]

(* The packet a MASTER writes at uptime t.                                 *)
SyncPacket(s, t) ==
  [counter |-> s.localCounter,
   timeSinceLastUpdate |-> Sub32(t, s.lastCounterUpdate)]

(* A client poll that reads the MASTER's counter and keeps its own.        *)
PollAdopt_Ignored(s, v) == s

(* A client poll that also restarts the tick period when it adopts.        *)
PollAdopt_Rephase(s, v) ==
  IF v # s.localCounter
  THEN [s EXCEPT !.localCounter = v, !.counterChar = v, !.counterCharLen = 4,
                 !.lastCounterUpdate = s.currentTime]
  ELSE s

(* The client branch of performSync, for a 4-byte value v read.            *)
PollAdopt(s, v) ==
  IF v # s.localCounter
  THEN [s EXCEPT !.localCounter = v, !.counterChar = v, !.counterCharLen = 4]
  ELSE s

---------------------------------------------------------------------------
(* Radio: the connection a -> Peer(a) goes down; both stacks queue the     *)
(* disconnect event.                                                       *)
Dropped(nd, a) ==
  [nd EXCEPT ![a].evClientDisc = TRUE, ![Peer(a)].evServerDisc = TRUE]

DropIfUp(nd, a) == IF link[a] = "up" THEN Dropped(nd, a) ELSE nd

Alive(n) == node[n].pc \notin {"off", "crashed"}

BleIdle(n) == Alive(n) /\ node[n].bleTask = "idle"

(* The BLE task of n is free to run the callback of a new event: the      *)
(* stack hands it the events in the order they happened.                   *)
TakesEvents(n) ==
  BleIdle(n) /\ ~node[n].evClientDisc /\ ~node[n].evServerDisc

(* A write or read of n over its connection reaches the peer's callbacks.  *)
PeerServes(n) == link[n] = "up" /\ TakesEvents(Peer(n))

(* The loop task of n runs: its BLE task has no callback to run.           *)
LoopRuns(n) ==
  ~(BleIdle(n) /\ (node[n].evClientDisc \/ node[n].evServerDisc))

---------------------------------------------------------------------------
(* BLESync_loop.  The loop task is cut where the BLE task's callbacks are  *)
(* let in or where the loop blocks in the radio: after the tick condition, *)
(* after the tick, in the scan window, and at each radio call of           *)
(* connectToServer.                                                        *)

(* Line 431: the tick condition.                                           *)
TickDue(s) == GeU(Sub32(s.currentTime, s.lastCounterUpdate), COUNTER_INTERVAL)

(* Lines 432-433.                                                          *)
TickBody(s) ==
  [updateCounter(s) EXCEPT !.lastCounterUpdate = s.currentTime]

(* Lines 432-433 with the role cleared under updateCounter.                *)
TickBodyTorn(s) ==
  [updateCounterTorn(s) EXCEPT !.lastCounterUpdate = s.currentTime]

(* Line 435: the sync condition.                                           *)
SyncDue(s) == GeU(Sub32(s.currentTime, s.lastSyncTime), SYNC_INTERVAL)

(* Lines 492-503: the periodic rescan and the post-disconnect jitter; the  *)
(* iteration ends.                                                         *)
LoopEnd(s) ==
  LET s1 == IF /\ (~s.clientConnected /\ ~s.serverConnected) \/ ~s.roleAssigned
               /\ ~s.doScan /\ ~s.doConnect
               /\ GeU(Sub32(s.currentTime, s.lastScanAttempt), RESCAN_INTERVAL)
            THEN [s EXCEPT !.doScan = TRUE]
            ELSE s
      s2 == IF /\ s1.randomScanDelay # 0
               /\ GeU(Sub32(s1.currentTime, s1.scanDelayStart), s1.randomScanDelay)
            THEN [s1 EXCEPT !.doScan = TRUE, !.randomScanDelay = 0, !.scanDelayStart = 0]
            ELSE s1
  IN [s2 EXCEPT !.pc = "top", !.waited = 0]

(* Lines 456-470: nothing to connect, the deadline, or connectToServer.    *)
ConnectPhase(s) ==
  LET started == IF s.connectAttemptStartTime = 0 THEN s.currentTime
                 ELSE s.connectAttemptStartTime
  IN IF ~s.doConnect THEN LoopEnd(s)
     ELSE IF GtU(Sub32(s.currentTime, started), CONNECTION_TIMEOUT)
     THEN LoopEnd([s EXCEPT !.doConnect = FALSE,
                            !.connectAttemptStartTime = 0,
                            !.doScan = TRUE,
                            !.targetDevice = NoDevice])
     ELSE [s EXCEPT !.connectAttemptStartTime = started, !.pc = "cts_start"]

(* The failure exits of connectToServer (for instance lines 238-242), the  *)
(* caller's lines 474-478 and the rest of the iteration.                   *)
(* A failure exit that closes the connection but arms no re-scan.          *)
ConnectFailed_NoRescan(s) ==
  LoopEnd([s EXCEPT !.pClient = FALSE,
                    !.doConnect = FALSE,
                    !.connectAttemptStartTime = 0])

ConnectFailed(s) ==
  LoopEnd([s EXCEPT !.pClient = FALSE,
                    !.doConnect = FALSE,
                    !.doScan = TRUE,
                    !.connectAttemptStartTime = 0])

(* The success exit of connectToServer from line 273 on, the caller's      *)
(* lines 471-473, 478 and the rest of the iteration.                       *)
ConnectSucceeded(s, currentUptime, remoteUptime, localMac, remoteMac) ==
  LoopEnd([AssignRole(s, DecideMaster(currentUptime, remoteUptime, localMac, remoteMac))
             EXCEPT !.currentUptime = currentUptime,
                    !.remoteUptime = remoteUptime,
                    !.connectAttemptStartTime = 0,
                    !.doConnect = FALSE])

(* A radio fault (a refused connect, a failed discovery or read, a lost    *)
(* write) is drawn from a bounded budget.                                  *)
FaultAllowed == env.faults > 0

Fault(b) == env' = IF b THEN [env EXCEPT !.faults = @ - 1] ELSE env

(* Lines 441-443 and on: start a blocking scan window, or go on to the     *)
(* connect phase.                                                          *)
ScanPhase(s) ==
  IF s.doScan
  THEN [s EXCEPT !.scanning = TRUE, !.scanStart = now, !.pc = "scanning"]
  ELSE ConnectPhase(s)

(* The environment loses every sync write of a MASTER.                     *)
WriteLost(s) == s.isMaster /\ ~env.writes

(* Lines 435-443 with performSync, for the loop of n in state s.  A write  *)
(* or read reaches the peer only over a connection that is up and when the *)
(* peer's BLE task is free; a write or read that fails changes nothing.    *)
(* nd is the state of the nodes so far.                                    *)
SyncPhase(n, s, nd) ==
  LET after == [s EXCEPT !.lastSyncTime = IF SyncDue(s) THEN s.currentTime ELSE @]
  IN IF SyncDue(s) /\ SyncGuard(s) /\ (s.isMaster \/ s.isClient)
     THEN \E ok \in BOOLEAN :
            /\ ok => PeerServes(n) /\ ~WriteLost(s)
            /\ ~ok /\ PeerServes(n) /\ ~WriteLost(s) => FaultAllowed
            /\ Fault(~ok /\ PeerServes(n) /\ ~WriteLost(s))
            /\ IF ~ok THEN node' = [nd EXCEPT ![n] = ScanPhase(after)]
               ELSE IF s.isMaster
               THEN node' = [nd EXCEPT
                      ![n] = ScanPhase(after),
                      ![Peer(n)] = MySyncCallback_onWrite(
                                      @, Millis(Peer(n)), SyncPacket(s, Millis(n)))]
               ELSE IF nd[Peer(n)].counterCharLen = 4
               THEN node' = [nd EXCEPT
                      ![n] = ScanPhase(PollAdopt(after, nd[Peer(n)].counterChar))]
               ELSE node' = [nd EXCEPT ![n] = ScanPhase(after)]
     ELSE /\ node' = [nd EXCEPT ![n] = ScanPhase(after)]
          /\ UNCHANGED env

(* Lines 426-431: read the clock, handle a pending role negotiation,       *)
(* evaluate the tick condition; when no tick is due, the iteration goes on *)
(* from line 435.                                                          *)
Loop_Begin(n) ==
  /\ node[n].pc = "top"
  /\ LoopRuns(n)
  /\ LET s0 == [node[n] EXCEPT !.currentTime = Millis(n)]
         forces == /\ s0.doRoleNegotiation
                   /\ PerformRoleNegotiationForces(s0)
                   /\ link[Peer(n)] = "up"
         s1 == IF s0.doRoleNegotiation
               THEN [performRoleNegotiation(s0) EXCEPT !.doRoleNegotiation = FALSE,
                                                       !.inboundWithoutRole = FALSE]
               ELSE s0
         nd == IF forces THEN Dropped(node, Peer(n)) ELSE node
     IN /\ link' = IF forces THEN [link EXCEPT ![Peer(n)] = "down"] ELSE link
        /\ IF TickDue(s1)
           THEN /\ node' = [nd EXCEPT ![n] = [s1 EXCEPT !.pc = "tickBody",
                                                       !.evServerDisc = nd[n].evServerDisc]]
                /\ UNCHANGED env
           ELSE SyncPhase(n, [s1 EXCEPT !.evServerDisc = nd[n].evServerDisc], nd)
  /\ UNCHANGED <<now, bootTime>>

(* Lines 432-443: the tick, then the rest of the iteration.                *)
Loop_TickBody(n) ==
  /\ node[n].pc = "tickBody"
  /\ LoopRuns(n)
  /\ SyncPhase(n, TickBody(node[n]), node)
  /\ UNCHANGED <<link, now, bootTime>>

(* A disconnect event of n whose callback clears the role of n.            *)
ClearsRole(n, server) ==
  /\ node[n].roleAssigned
  /\ IF server THEN node[n].evServerDisc /\ node[n].isMaster
     ELSE node[n].evClientDisc

(* Lines 432-443 when a disconnect callback runs inside updateCounter: the *)
(* loop and the BLE task are different tasks and share the role flags      *)
(* without a lock.                                                         *)
Loop_TickTorn(n) ==
  /\ node[n].pc = "tickBody"
  /\ BleIdle(n)
  /\ \E server \in BOOLEAN, j \in JitterValues :
       /\ ClearsRole(n, server)
       /\ LET s1 == IF server
                    THEN [MyServerCallbacks_onDisconnect(node[n], Millis(n), j)
                            EXCEPT !.evServerDisc = FALSE]
                    ELSE [MyClientCallback_onDisconnect(node[n], Millis(n), j)
                            EXCEPT !.evClientDisc = FALSE]
          IN SyncPhase(n, TickBodyTorn(s1), node)
  /\ UNCHANGED <<link, now, bootTime>>

ScanWindowOver(n) ==
  ~node[n].scanning \/ now - node[n].scanStart >= SCAN_TIME * 1000

(* Lines 444-470: start() returned, the window is over or was stopped.     *)
Loop_ScanEnd(n) ==
  /\ node[n].pc = "scanning"
  /\ LoopRuns(n)
  /\ ScanWindowOver(n)
  /\ node' = [node EXCEPT ![n] =
                ConnectPhase([@ EXCEPT !.scanning = FALSE,
                                       !.doScan = FALSE,
                                       !.lastScanAttempt = node[n].currentTime])]
  /\ UNCHANGED <<link, now, bootTime, env>>

(* connectToServer lines 225-235: the peer record is dereferenced, the old *)
(* client object is disconnected and deleted, a new one is created.        *)
CTS_Start(n) ==
  /\ node[n].pc = "cts_start"
  /\ LoopRuns(n)
  /\ IF node[n].targetDevice = NoDevice
     THEN /\ node' = [node EXCEPT ![n].pc = "crashed"]
          /\ UNCHANGED link
     ELSE /\ node' = LET nd == [node EXCEPT ![n].pClient = TRUE,
                                            ![n].pc = "cts_connect"]
                     IN IF node[n].pClient THEN DropIfUp(nd, n) ELSE nd
          /\ link' = IF node[n].pClient THEN [link EXCEPT ![n] = "down"] ELSE link
  /\ UNCHANGED <<now, bootTime, env>>

(* The peer accepts a connection while it advertises.                      *)
Connectable(n) ==
  /\ node[n].targetDevice # NoDevice
  /\ TakesEvents(node[n].targetDevice)
  /\ node[node[n].targetDevice].advertising

(* connectToServer lines 236-243: the blocking connect.  On success the    *)
(* peer's stack runs its server onConnect.  A connect fails by timing out. *)
CTS_Connect(n) ==
  /\ node[n].pc = "cts_connect"
  /\ LoopRuns(n)
  /\ IF node[n].targetDevice = NoDevice
     THEN /\ node' = [node EXCEPT ![n].pc = "crashed"]
          /\ UNCHANGED <<link, env>>
     ELSE \E ok \in BOOLEAN :
            /\ ok => Connectable(n)
            /\ ~ok => node[n].waited >= env.rpcWait
            /\ ~ok /\ Connectable(n) => FaultAllowed
            /\ Fault(~ok /\ Connectable(n))
            /\ IF ok
               THEN /\ node' = [node EXCEPT
                         ![n].pc = "cts_discover",
                         ![Peer(n)] = MyServerCallbacks_onConnect(@, Millis(Peer(n)))]
                    /\ link' = [link EXCEPT ![n] = "up"]
               ELSE /\ node' = [node EXCEPT ![n] = ConnectFailed(@)]
                    /\ UNCHANGED link
  /\ UNCHANGED <<now, bootTime>>

(* What discovery can find: everything, no service, or the service without *)
(* its timestamp characteristic.                                           *)
DiscoveryOutcomes ==
  { [svc |-> TRUE, c |-> TRUE, y |-> TRUE, t |-> TRUE],
    [svc |-> FALSE, c |-> FALSE, y |-> FALSE, t |-> FALSE],
    [svc |-> TRUE, c |-> TRUE, y |-> TRUE, t |-> FALSE] }

(* connectToServer lines 246-270: service and characteristic discovery.    *)
CTS_Discover(n) ==
  /\ node[n].pc = "cts_discover"
  /\ LoopRuns(n)
  /\ \E d \in DiscoveryOutcomes :
       LET all == d.svc /\ d.c /\ d.y /\ d.t
           s1 == [node[n] EXCEPT !.pRemoteService = d.svc]
           s2 == IF d.svc
                 THEN [s1 EXCEPT !.pRemoteCounterCharacteristic = d.c,
                                 !.pRemoteSyncCharacteristic = d.y,
                                 !.pRemoteTimestampCharacteristic = d.t]
                 ELSE s1
       IN /\ d.svc => link[n] = "up"
          /\ ~all /\ link[n] = "up" => FaultAllowed
          /\ Fault(~all /\ link[n] = "up")
          /\ IF all
             THEN /\ node' = [node EXCEPT ![n] = [s2 EXCEPT !.pc = "cts_read"]]
                  /\ UNCHANGED link
             ELSE /\ node' = DropIfUp([node EXCEPT ![n] = ConnectFailed(s2)], n)
                  /\ link' = [link EXCEPT ![n] = "down"]
  /\ UNCHANGED <<now, bootTime>>

(* connectToServer lines 272-325: read the peer's timestamp                *)
(* characteristic, decide the role, apply it.                              *)
CTS_Read(n) ==
  /\ node[n].pc = "cts_read"
  /\ LoopRuns(n)
  /\ IF ~node[n].pRemoteTimestampCharacteristic \/ node[n].targetDevice = NoDevice
     THEN /\ node' = [node EXCEPT ![n].pc = "crashed"]
          /\ UNCHANGED <<link, env>>
     ELSE \E ok \in BOOLEAN :
            /\ ok => PeerServes(n)
            /\ ~ok /\ PeerServes(n) => FaultAllowed
            /\ env' = IF ok THEN [env EXCEPT !.negotiated = @ \cup {n}]
                      ELSE IF PeerServes(n) THEN [env EXCEPT !.faults = @ - 1]
                      ELSE env
            /\ IF ok
               THEN /\ node' = [node EXCEPT ![n] =
                         ConnectSucceeded(@, Millis(n), node[Peer(n)].timestampChar,
                                          MacOf(n), MacOf(node[n].targetDevice))]
                    /\ UNCHANGED link
               ELSE /\ node' = DropIfUp([node EXCEPT ![n] = ConnectFailed(@)], n)
                    /\ link' = [link EXCEPT ![n] = "down"]
  /\ UNCHANGED <<now, bootTime>>

(* connectToServer lines 272-325 when the connection is lost right after   *)
(* the read returned and the client disconnect callback runs on the BLE    *)
(* task before the role is decided (line 279): the loop and the BLE task   *)
(* share the flags, the handles and the peer record without a lock.  The   *)
(* callback clears them, then the loop assigns the role and sets           *)
(* clientConnected; on equal uptimes line 288 dereferences the freed peer  *)
(* record.                                                                 *)
CTS_ReadTorn(n) ==
  /\ node[n].pc = "cts_read"
  /\ LoopRuns(n)
  /\ BleIdle(n)
  /\ node[n].pRemoteTimestampCharacteristic
  /\ node[n].targetDevice # NoDevice
  /\ PeerServes(n)
  /\ env.losses > 0
  /\ \E j \in JitterValues :
       LET remote == node[Peer(n)].timestampChar
           cb == MyClientCallback_onDisconnect(node[n], Millis(n), j)
           done == ConnectSucceeded(cb, Millis(n), remote,
                                    MacOf(n), MacOf(node[n].targetDevice))
       IN node' = [Dropped(node, n) EXCEPT ![n] =
                     IF Millis(n) = remote
                     THEN [cb EXCEPT !.pc = "crashed"]
                     ELSE [done EXCEPT !.evClientDisc = FALSE]]
  /\ link' = [link EXCEPT ![n] = "down"]
  /\ env' = [env EXCEPT !.losses = @ - 1, !.negotiated = @ \cup {n}]
  /\ UNCHANGED <<now, bootTime>>

---------------------------------------------------------------------------
(* The BLE task of node n: one callback at a time.                         *)

(* An advertisement of the peer that n's scan will report; the radio      *)
(* delivers a bounded number of them.                                      *)
Hears(n) ==
  /\ node[n].scanning
  /\ Alive(Peer(n))
  /\ node[Peer(n)].advertising
  /\ env.heard > 0

(* MyAdvertisedDeviceCallbacks::onResult lines 143-156, for the peer's     *)
(* advertisement received during a scan window.  A node with the smaller   *)
(* address stays in delay(1000) inside the callback.                       *)
OnResult(n) ==
  /\ BleIdle(n)
  /\ Hears(n)
  /\ node' = [node EXCEPT ![n] =
       IF ~OnResultAccepts(@) THEN @
       ELSE IF LexLess(MacOf(n), MacOf(Peer(n)))
       THEN [OnResultStash(@, Peer(n)) EXCEPT !.bleTask = "delay", !.delayStart = now]
       ELSE OnResultMark(OnResultStash(@, Peer(n)))]
  /\ env' = IF OnResultAccepts(node[n]) THEN [env EXCEPT !.heard = @ - 1] ELSE env
  /\ UNCHANGED <<link, now, bootTime>>

DelayOver(n) == now - node[n].delayStart >= COLLISION_DELAY

(* onResult lines 160-161, after the delay.                                *)
OnResult_AfterDelay(n) ==
  /\ Alive(n)
  /\ node[n].bleTask = "delay"
  /\ DelayOver(n)
  /\ node' = [node EXCEPT ![n] = [OnResultMark(@) EXCEPT !.bleTask = "idle"]]
  /\ UNCHANGED <<link, now, bootTime, env>>

(* The stack delivers a queued server-side disconnect.                     *)
ServerOnDisconnect(n) ==
  /\ BleIdle(n)
  /\ node[n].evServerDisc
  /\ \E j \in JitterValues :
       node' = [node EXCEPT ![n] =
                  [MyServerCallbacks_onDisconnect(@, Millis(n), j)
                     EXCEPT !.evServerDisc = FALSE]]
  /\ UNCHANGED <<link, now, bootTime, env>>

(* The stack delivers a queued client-side disconnect.                     *)
ClientOnDisconnect(n) ==
  /\ BleIdle(n)
  /\ node[n].evClientDisc
  /\ \E j \in JitterValues :
       node' = [node EXCEPT ![n] =
                  [MyClientCallback_onDisconnect(@, Millis(n), j)
                     EXCEPT !.evClientDisc = FALSE]]
  /\ UNCHANGED <<link, now, bootTime, env>>

---------------------------------------------------------------------------
(* The environment.                                                        *)

(* clientConnected with all remote handles present.                        *)
Session(n) ==
  /\ node[n].clientConnected
  /\ node[n].pRemoteCounterCharacteristic
  /\ node[n].pRemoteSyncCharacteristic
  /\ node[n].pRemoteTimestampCharacteristic

(* One MASTER and one CLIENT, each with its session over a live            *)
(* connection.                                                             *)
SteadyPair ==
  /\ \A n \in Nodes :
       Alive(n) /\ node[n].roleAssigned /\ Session(n) /\ link[n] = "up"
  /\ \E m \in Nodes :
       /\ node[m].isMaster /\ ~node[m].isClient
       /\ node[Peer(m)].isClient /\ ~node[Peer(m)].isMaster

(* The radio loses the connection a -> Peer(a).                            *)
LinkLoss(a) ==
  /\ link[a] = "up"
  /\ env.losses > 0
  /\ node' = Dropped(node, a)
  /\ link' = [link EXCEPT ![a] = "down"]
  /\ env' = [env EXCEPT !.losses = @ - 1]
  /\ UNCHANGED <<now, bootTime>>

(* Node n is switched on: BLESync_setup() runs.                            *)
Boot(n) ==
  /\ node[n].pc = "off"
  /\ now <= MaxBootSkew * TimeStep
  /\ node' = [node EXCEPT ![n] = SetupNode(0)]
  /\ bootTime' = [bootTime EXCEPT ![n] = now]
  /\ UNCHANGED <<link, now, env>>

(* Node n is switched on after the other node's first rescan period.      *)
LateBoot(n) ==
  /\ node[n].pc = "off"
  /\ now = LateBootTime
  /\ node' = [node EXCEPT ![n] = SetupNode(0)]
  /\ bootTime' = [bootTime EXCEPT ![n] = now]
  /\ UNCHANGED <<link, now, env>>

(* Node n is reset: BLESync_setup() runs again, uptime restarts at 0, the  *)
(* peer's stack sees the connections with n go down.                       *)
Reboot(n) ==
  /\ node[n].pc # "off"
  /\ env.reboots > 0
  /\ node' = [node EXCEPT
       ![n] = SetupNode(0),
       ![Peer(n)] = [@ EXCEPT
            !.evServerDisc = @ \/ link[n] = "up",
            !.evClientDisc = @ \/ link[Peer(n)] = "up"]]
  /\ link' = [m \in Nodes |-> "down"]
  /\ bootTime' = [bootTime EXCEPT ![n] = now]
  /\ env' = [env EXCEPT !.reboots = @ - 1, !.rebooted = n, !.negotiated = {}]
  /\ UNCHANGED now

(* The loop of n can let time pass: it is between two iterations and has   *)
(* run one at this instant, or it is inside a blocking radio call.         *)
MayWait(n) ==
  \/ node[n].pc \in {"off", "crashed"}
  \/ node[n].pc = "top" /\ node[n].currentTime = Millis(n)
  \/ node[n].pc = "scanning" /\ ~ScanWindowOver(n)
  \/ /\ node[n].pc \in {"cts_connect", "cts_discover", "cts_read"}
     /\ node[n].waited < env.rpcWait

(* The BLE task of n has nothing it must do now: it is inside delay(), or  *)
(* no event is queued and no advertisement it would act on is on the air.  *)
BleQuiet(n) ==
  \/ node[n].pc \in {"off", "crashed"}
  \/ node[n].bleTask = "delay" /\ ~DelayOver(n)
  \/ /\ node[n].bleTask = "idle"
     /\ ~node[n].evClientDisc
     /\ ~node[n].evServerDisc
     /\ ~(Hears(n) /\ OnResultAccepts(node[n]))

Advance ==
  /\ now + TimeStep <= env.horizon
  /\ \E n \in Nodes : node[n].pc # "off"
  /\ \A n \in Nodes : MayWait(n) /\ BleQuiet(n)
  /\ now' = now + TimeStep
  /\ node' = [n \in Nodes |->
                IF node[n].pc \in {"cts_connect", "cts_discover", "cts_read"}
                THEN [node[n] EXCEPT !.waited = @ + 1]
                ELSE node[n]]
  /\ UNCHANGED <<link, bootTime, env>>

Next ==
  \/ \E n \in Nodes : Loop_Begin(n)
  \/ \E n \in Nodes : Loop_TickBody(n)
  \/ \E n \in Nodes : Loop_TickTorn(n)
  \/ \E n \in Nodes : Loop_ScanEnd(n)
  \/ \E n \in Nodes : CTS_Start(n)
  \/ \E n \in Nodes : CTS_Connect(n)
  \/ \E n \in Nodes : CTS_Discover(n)
  \/ \E n \in Nodes : CTS_Read(n)
  \/ \E n \in Nodes : CTS_ReadTorn(n)
  \/ \E n \in Nodes : OnResult(n)
  \/ \E n \in Nodes : OnResult_AfterDelay(n)
  \/ \E n \in Nodes : ServerOnDisconnect(n)
  \/ \E n \in Nodes : ClientOnDisconnect(n)
  \/ \E n \in Nodes : LinkLoss(n)
  \/ \E n \in Nodes : Boot(n)
  \/ \E n \in Nodes : Reboot(n)
  \/ Advance

Spec == Init /\ [][Next]_vars

(* The system of two nodes that both keep running, for recovery after the  *)
(* loss of a connection of a steady pair.                                  *)
InitRecovery ==
  /\ node = [n \in Nodes |-> PoweredOff]
  /\ link = [n \in Nodes |-> "down"]
  /\ now = 0
  /\ bootTime = [n \in Nodes |-> 0]
  /\ env = RecoveryScenario

PairLoss(a) == SteadyPair /\ LinkLoss(a)

NextRecovery ==
  \/ \E n \in Nodes : Loop_Begin(n)
  \/ \E n \in Nodes : Loop_TickBody(n)
  \/ \E n \in Nodes : Loop_TickTorn(n)
  \/ \E n \in Nodes : Loop_ScanEnd(n)
  \/ \E n \in Nodes : CTS_Start(n)
  \/ \E n \in Nodes : CTS_Connect(n)
  \/ \E n \in Nodes : CTS_Discover(n)
  \/ \E n \in Nodes : CTS_Read(n)
  \/ \E n \in Nodes : OnResult(n)
  \/ \E n \in Nodes : OnResult_AfterDelay(n)
  \/ \E n \in Nodes : ServerOnDisconnect(n)
  \/ \E n \in Nodes : ClientOnDisconnect(n)
  \/ \E n \in Nodes : PairLoss(n)
  \/ \E n \in Nodes : Boot(n)
  \/ Advance

SpecRecovery == InitRecovery /\ [][NextRecovery]_vars

(* The system of a node and a peer that is switched on late, with no reset *)
(* and no radio fault other than lost sync writes.                         *)
InitConverge ==
  /\ node = [n \in Nodes |-> PoweredOff]
  /\ link = [n \in Nodes |-> "down"]
  /\ now = 0
  /\ bootTime = [n \in Nodes |-> 0]
  /\ env \in ConvergeScenarios

NextConverge ==
  \/ \E n \in Nodes : Loop_Begin(n)
  \/ \E n \in Nodes : Loop_TickBody(n)
  \/ \E n \in Nodes : Loop_TickTorn(n)
  \/ \E n \in Nodes : Loop_ScanEnd(n)
  \/ \E n \in Nodes : CTS_Start(n)
  \/ \E n \in Nodes : CTS_Connect(n)
  \/ \E n \in Nodes : CTS_Discover(n)
  \/ \E n \in Nodes : CTS_Read(n)
  \/ \E n \in Nodes : OnResult(n)
  \/ \E n \in Nodes : OnResult_AfterDelay(n)
  \/ \E n \in Nodes : ServerOnDisconnect(n)
  \/ \E n \in Nodes : ClientOnDisconnect(n)
  \/ Boot(1)
  \/ LateBoot(2)
  \/ Advance

SpecConverge == InitConverge /\ [][NextConverge]_vars

(* The late peer again: with every sync write lost and a radio fault that  *)
(* can make a read of the CLIENT fail, or with the writes delivered and no *)
(* fault.                                                                  *)
PollScenarios ==
  { [Budget(0, MaxFaults, 0, PairHeard, ConvergeRun) EXCEPT !.writes = FALSE],
    Budget(0, 0, 0, PairHeard, ConvergeRun) }

InitPoll ==
  /\ node = [n \in Nodes |-> PoweredOff]
  /\ link = [n \in Nodes |-> "down"]
  /\ now = 0
  /\ bootTime = [n \in Nodes |-> 0]
  /\ env \in PollScenarios

SpecPoll == InitPoll /\ [][NextConverge]_vars

(* The system of two nodes on a slow radio, with no reset and no fault.    *)
InitDeadline ==
  /\ node = [n \in Nodes |-> PoweredOff]
  /\ link = [n \in Nodes |-> "down"]
  /\ now = 0
  /\ bootTime = [n \in Nodes |-> 0]
  /\ env = SlowScenario

NextDeadline ==
  \/ \E n \in Nodes : Loop_Begin(n)
  \/ \E n \in Nodes : Loop_TickBody(n)
  \/ \E n \in Nodes : Loop_TickTorn(n)
  \/ \E n \in Nodes : Loop_ScanEnd(n)
  \/ \E n \in Nodes : CTS_Start(n)
  \/ \E n \in Nodes : CTS_Connect(n)
  \/ \E n \in Nodes : CTS_Discover(n)
  \/ \E n \in Nodes : CTS_Read(n)
  \/ \E n \in Nodes : OnResult(n)
  \/ \E n \in Nodes : OnResult_AfterDelay(n)
  \/ \E n \in Nodes : ServerOnDisconnect(n)
  \/ \E n \in Nodes : ClientOnDisconnect(n)
  \/ \E n \in Nodes : Boot(n)
  \/ Advance

SpecDeadline == InitDeadline /\ [][NextDeadline]_vars

---------------------------------------------------------------------------
(* The sync callback as a function of the written value: a node that holds *)
(* an inbound connection, and a central that writes values of any length   *)
(* to its sync characteristic (declared writable at lines 177-180).        *)
MaxValueWords == 3

(* A time since the last tick that is longer than a tick period.           *)
StaleDelta == COUNTER_INTERVAL + TimeStep

SyncWords == {0, 9, TimeStep, COUNTER_INTERVAL, StaleDelta}

SyncValues ==
  UNION { [1..k -> SyncWords] : k \in 0..MaxValueWords }

StrayWords == [1..2 -> {0, 9}]

(* A node at uptime now with an inbound connection, in any role, with a    *)
(* counter and a time of the last tick it can have by then.                *)
Receivers ==
  { [SetupNode(0) EXCEPT !.serverConnected = TRUE,
                         !.doScan = FALSE,
                         !.roleAssigned = r # "UNASSIGNED",
                         !.isMaster = r = "MASTER",
                         !.isClient = r = "CLIENT",
                         !.clientConnected = r # "UNASSIGNED",
                         !.localCounter = c,
                         !.counterChar = c,
                         !.counterCharLen = IF c = 0 THEN 0 ELSE 4,
                         !.lastCounterUpdate = c * COUNTER_INTERVAL]
      : r \in {"UNASSIGNED", "MASTER", "CLIENT"}, c \in 0..1 }

(* Node 2 is a MASTER; node 1 is any receiver; before the first tick is   *)
(* due the counters are 0.                                                 *)
InitWrite ==
  /\ now \in {TimeStep, COUNTER_INTERVAL + TimeStep}
  /\ node \in { nd \in [Nodes -> Receivers] :
                  /\ nd[2].isMaster
                  /\ \A n \in Nodes :
                       nd[n].localCounter = IF now < COUNTER_INTERVAL THEN 0 ELSE 1 }
  /\ link = [n \in Nodes |-> "up"]
  /\ bootTime = [n \in Nodes |-> 0]
  /\ env = Budget(0, 0, 0, 0, 0)

(* The connected MASTER writes value to the sync characteristic of n, once. *)
SyncWrite(n, value, stray) ==
  /\ link[Peer(n)] = "up"
  /\ node[Peer(n)].isMaster
  /\ TakesEvents(n)
  /\ node[n].syncTime < 0
  /\ node' = [node EXCEPT ![n] =
                MySyncCallback_onWriteValue(@, Millis(n), value, stray)]
  /\ UNCHANGED <<link, now, bootTime, env>>

NextWrite ==
  \E n \in Nodes, value \in SyncValues, stray \in StrayWords :
    SyncWrite(n, value, stray)

SpecWrite == InitWrite /\ [][NextWrite]_vars

---------------------------------------------------------------------------
(* The tick step and the sync step of one loop iteration of a MASTER, at   *)
(* the resolution of millis().  The loop reads the clock at line 426 into  *)
(* currentTime and performSync reads it again at line 336; up to           *)
(* MaxLoopMillis milliseconds pass between the two reads.                  *)
MaxLoopMillis == 1

(* How long before the iteration the last tick and the last sync were.     *)
TickAges ==
  {0, 1, COUNTER_INTERVAL - 2, COUNTER_INTERVAL - 1, COUNTER_INTERVAL,
   COUNTER_INTERVAL + 1}

SyncAges == {SYNC_INTERVAL - 2, SYNC_INTERVAL - 1, SYNC_INTERVAL}

EmitStart == 2 * SYNC_INTERVAL

EmitHorizon == EmitStart + 2

(* Node 1 is a MASTER with its session, node 2 its CLIENT.                 *)
InitEmit ==
  /\ now = EmitStart
  /\ \E a \in TickAges, y \in SyncAges, c \in 1..2 :
       node = [n \in Nodes |->
                 [SetupNode(0) EXCEPT
                    !.roleAssigned = TRUE,
                    !.isMaster = n = 1,
                    !.isClient = n = 2,
                    !.clientConnected = TRUE,
                    !.serverConnected = TRUE,
                    !.advertising = n = 1,
                    !.doScan = FALSE,
                    !.pClient = TRUE,
                    !.pRemoteService = TRUE,
                    !.pRemoteCounterCharacteristic = TRUE,
                    !.pRemoteSyncCharacteristic = TRUE,
                    !.pRemoteTimestampCharacteristic = TRUE,
                    !.localCounter = c,
                    !.counterChar = c,
                    !.counterCharLen = 4,
                    !.lastCounterUpdate = EmitStart - a,
                    !.lastSyncTime = EmitStart - y]]
  /\ link = [n \in Nodes |-> "up"]
  /\ bootTime = [n \in Nodes |-> 0]
  /\ env = Budget(0, 0, 0, 0, EmitHorizon)

(* Lines 426-440 of one iteration of the MASTER n, with d milliseconds     *)
(* between the clock read of line 426 and that of line 336.                *)
EmitIteration(n, d) ==
  /\ node[n].isMaster
  /\ now + d <= env.horizon
  /\ LET s0 == [node[n] EXCEPT !.currentTime = Millis(n)]
         s1 == IF TickDue(s0) THEN TickBody(s0) ELSE s0
         after == [s1 EXCEPT !.lastSyncTime = IF SyncDue(s1) THEN s1.currentTime ELSE @]
     IN IF SyncDue(s1) /\ SyncGuard(s1)
        THEN node' = [node EXCEPT
                        ![n] = after,
                        ![Peer(n)] = MySyncCallback_onWrite(
                                        @, Wrap32(Millis(Peer(n)) + d),
                                        SyncPacket(s1, Wrap32(Millis(n) + d)))]
        ELSE node' = [node EXCEPT ![n] = after]
  /\ now' = now + d
  /\ UNCHANGED <<link, bootTime, env>>

(* A millisecond passes.                                                   *)
MilliPass ==
  /\ now + 1 <= env.horizon
  /\ now' = now + 1
  /\ UNCHANGED <<node, link, bootTime, env>>

NextEmit ==
  \/ \E n \in Nodes, d \in 0..MaxLoopMillis : EmitIteration(n, d)
  \/ MilliPass

SpecEmit == InitEmit /\ [][NextEmit]_vars

---------------------------------------------------------------------------
(* Properties.                                                             *)

Running(n) == Alive(n)

(* C1  Role asymmetry: whenever both nodes hold an assigned role, exactly  *)
(* one of them is MASTER and the other is CLIENT.                          *)
RoleAsymmetry ==
  (\A n \in Nodes : Running(n) /\ node[n].roleAssigned)
    => \E m \in Nodes :
         /\ node[m].isMaster /\ ~node[m].isClient
         /\ node[Peer(m)].isClient /\ ~node[Peer(m)].isMaster

(* A step in which connectToServer of n returns true: the timestamp read   *)
(* returned 4 bytes and the role was assigned.                             *)
NegotiationEnds(n) ==
  /\ node[n].pc = "cts_read"
  /\ node'[n].pc = "top"
  /\ node'[n].pClient

(* C2  Role Arbiter rule: at the end of a negotiation whose timestamp read *)
(* returned 4 bytes the node is MASTER when its uptime Ul at that instant  *)
(* is greater than the uptime Ur it read, CLIENT when Ul < Ur, and on      *)
(* Ul = Ur MASTER exactly when its address is lexically smaller than the   *)
(* peer's; exactly one of MASTER / CLIENT is assigned.                     *)
RoleArbiterRule ==
  [][\A n \in Nodes :
       NegotiationEnds(n) =>
         LET Ul == Millis(n)
             Ur == node[Peer(n)].timestampChar
             smaller == MacOf(n)[4] < MacOf(Peer(n))[4]
         IN /\ node'[n].roleAssigned
            /\ node'[n].isMaster # node'[n].isClient
            /\ Ul > Ur => node'[n].isMaster
            /\ Ul < Ur => node'[n].isClient
            /\ Ul = Ur => (node'[n].isMaster <=> smaller)]_vars

(* C2 witness: a negotiation ended on equal uptimes and made the node with *)
(* the smaller address MASTER, and another one ended on unequal uptimes.   *)
RoleArbiterTieDecided ==
  /\ node[1].roleAssigned /\ node[1].isMaster
  /\ node[1].currentUptime = node[1].remoteUptime
  /\ node[2].roleAssigned /\ node[2].isMaster
  /\ node[2].currentUptime > node[2].remoteUptime

(* C4  Counter monotonicity: on a running node the local counter never    *)
(* decreases across any step other than the node's own reset; every value  *)
(* adopted by sync write or by poll is at least the counter it replaces.   *)
CounterMonotonicity ==
  [][\A n \in Nodes :
       env'.reboots = env.reboots /\ node[n].pc # "off"
         => node'[n].localCounter >= node[n].localCounter]_vars

(* C5  Phase alignment: once a sync write with time_since_last_update      *)
(* D <= COUNTER_INTERVAL was ingested at uptime t, the loop increments the *)
(* counter in no iteration before t + (COUNTER_INTERVAL - D), however the  *)
(* write callback interleaves with the loop's tick step.                   *)
PhaseAlignment ==
  \A n \in Nodes :
    /\ node[n].pc = "tickBody"
    /\ node[n].syncTime >= 0
    /\ node[n].syncPacket.timeSinceLastUpdate <= COUNTER_INTERVAL
    => Millis(n) >= node[n].syncTime
                      + (COUNTER_INTERVAL - node[n].syncPacket.timeSinceLastUpdate)

(* The connect phase of n is over: the scan callback has returned, no      *)
(* connect is pending, the loop is between two iterations.                 *)
Settled(n) ==
  /\ node[n].pc = "top"
  /\ TakesEvents(n)
  /\ ~node[n].doConnect

(* C7  Symmetric connect collision: when both nodes discovered each other  *)
(* in the same scan round, only one of them performs an outbound connect;  *)
(* the node with the smaller address, held back by the collision delay,    *)
(* does not connect as well.                                               *)
CollisionSingleConnect ==
  /\ \A n \in Nodes : Settled(n) /\ node[n].targetDevice = Peer(n)
  /\ node[1].foundAt = node[2].foundAt
  => \E n \in Nodes : link[n] # "up"

(* C8  Session/role coupling: at every loop-iteration boundary, with no    *)
(* callback outstanding, a node holds a session exactly when its role is   *)
(* assigned.                                                               *)
SessionRoleCoupling ==
  \A n \in Nodes :
    node[n].pc = "top" /\ TakesEvents(n)
      => (Session(n) <=> node[n].roleAssigned)

(* C9  Peer record ownership: whenever no connect is pending at a          *)
(* loop-iteration boundary the peer record is empty; it was freed after    *)
(* the negotiation succeeded, after the connect failed, after teardown.    *)
PeerRecordFreed ==
  \A n \in Nodes : Settled(n) => node[n].targetDevice = NoDevice

(* What the loop owns: the counter, the time of the last tick, the role,   *)
(* the session handles.                                                    *)
LoopOwned(s) ==
  <<s.localCounter, s.lastCounterUpdate, s.isMaster, s.isClient,
    s.roleAssigned, s.pRemoteService, s.pRemoteCounterCharacteristic,
    s.pRemoteSyncCharacteristic, s.pRemoteTimestampCharacteristic>>

(* A step in which a radio callback of n runs: a scan result, a server or  *)
(* client disconnect, a server connect, a sync write.                      *)
CallbackRuns(n) ==
  \/ OnResult(n)
  \/ OnResult_AfterDelay(n)
  \/ ServerOnDisconnect(n)
  \/ ClientOnDisconnect(n)
  \/ link[Peer(n)] # "up" /\ link'[Peer(n)] = "up"
  \/ node[n].pc = node'[n].pc /\ node'[n].syncTime # node[n].syncTime

(* C10  Callback discipline: a radio callback changes nothing the loop     *)
(* owns, does not block, and does not start or stop scanning or            *)
(* advertising.                                                            *)
CallbackDiscipline ==
  [][\A n \in Nodes :
       CallbackRuns(n) =>
         /\ LoopOwned(node'[n]) = LoopOwned(node[n])
         /\ node'[n].bleTask = "idle"
         /\ node'[n].advertising = node[n].advertising
         /\ node'[n].scanning = node[n].scanning]_vars

(* Two MASTERs with live sessions and nothing pending: no scan, connect or *)
(* negotiation flag, no jitter delay, no callback outstanding.  From here  *)
(* the loops only tick and write syncs.                                    *)
TwoMastersAtRest ==
  \A n \in Nodes :
    /\ node[n].pc \in {"top", "tickBody"}
    /\ TakesEvents(n)
    /\ node[n].roleAssigned /\ node[n].isMaster
    /\ Session(n) /\ link[n] = "up"
    /\ ~node[n].doScan /\ ~node[n].doConnect /\ ~node[n].doRoleNegotiation
    /\ node[n].randomScanDelay = 0

(* C6  Recovery: after a connection of a steady pair was lost, with both   *)
(* nodes running and the radio delivering, the nodes come back to a steady *)
(* pair; they are never left as two MASTERs at rest, a state no step of    *)
(* the program leaves.                                                     *)
Recovery ==
  env.losses < MaxLosses => ~TwoMastersAtRest

(* C3  Reboot precedence: if node A was reset while node B kept running,   *)
(* then whenever both hold a role that they negotiated after the reset, B  *)
(* is MASTER and A is CLIENT.                                              *)
RebootPrecedence ==
  \A a \in Nodes :
    /\ env.rebooted = a
    /\ bootTime[a] > bootTime[Peer(a)]
    /\ env.negotiated = Nodes
    /\ \A n \in Nodes : Running(n) /\ node[n].roleAssigned
    => node[Peer(a)].isMaster /\ node[a].isClient

(* A step in which the loop of n executes its tick step (lines 432-433).   *)
TickStep(n) ==
  /\ node[n].pc = "tickBody" /\ node'[n].pc # "tickBody"
  /\ env'.reboots = env.reboots

(* C11  Unconditional tick: in every loop iteration whose tick condition   *)
(* holds, the tick step increases the counter by exactly 1, publishes the  *)
(* new value in the counter characteristic and sets the time of the last   *)
(* tick to the iteration's now, in every role and connection state; an     *)
(* iteration whose condition is false leaves the counter to the sync step. *)
UnconditionalTick ==
  [][\A n \in Nodes :
       /\ TickStep(n) =>
            /\ node'[n].lastCounterUpdate = node[n].currentTime
            /\ node'[n].counterCharLen = 4
            /\ node'[n].counterChar = node'[n].localCounter
            /\ node'[n].lastSyncTime = node[n].lastSyncTime
                 => node'[n].localCounter = Inc32(node[n].localCounter)
       /\ Loop_Begin(n) /\ node'[n].lastSyncTime = node[n].lastSyncTime
            => node'[n].localCounter = node[n].localCounter]_vars

(* The role of a node state: UNASSIGNED, MASTER or CLIENT.                 *)
RoleOf(s) ==
  IF ~s.roleAssigned THEN "UNASSIGNED"
  ELSE IF s.isMaster THEN "MASTER" ELSE "CLIENT"

(* A step in which a disconnect callback of n runs.                        *)
DisconnectArrives(n) ==
  ServerOnDisconnect(n) \/ ClientOnDisconnect(n)

(* C12  Role transitions: the role leaves UNASSIGNED only at the end of a  *)
(* successful negotiation, never changes directly between MASTER and       *)
(* CLIENT, and is UNASSIGNED after every disconnect callback, server-side  *)
(* or client-side, whatever the role was.                                  *)
RoleTransitions ==
  [][\A n \in Nodes :
       /\ RoleOf(node[n]) = "UNASSIGNED" /\ RoleOf(node'[n]) # "UNASSIGNED"
            => NegotiationEnds(n)
       /\ RoleOf(node[n]) # "UNASSIGNED" /\ RoleOf(node'[n]) # "UNASSIGNED"
            => RoleOf(node'[n]) = RoleOf(node[n])
       /\ DisconnectArrives(n) => RoleOf(node'[n]) = "UNASSIGNED"]_vars

(* C13  A node with role MASTER or CLIENT is never advertising and         *)
(* scanning at the same time, also when a jitter timer scheduled by an     *)
(* earlier disconnect expires after a new role was assigned.               *)
NoScanWhileAdvertisingInRole ==
  \A n \in Nodes :
    Running(n) /\ node[n].roleAssigned
      => ~(node[n].advertising /\ node[n].scanning)

(* C14  Malformed sync packet: a write to the sync characteristic whose    *)
(* length is not 8 bytes is discarded; the counter and the time of the     *)
(* last tick are left unchanged.                                           *)
MalformedSyncDiscarded ==
  [][\A n \in Nodes, value \in SyncValues, stray \in StrayWords :
       SyncWrite(n, value, stray) /\ Len(value) # 2
         => /\ node'[n].localCounter = node[n].localCounter
            /\ node'[n].lastCounterUpdate = node[n].lastCounterUpdate]_vars

(* What a sync write leaves alone: role and connection state.              *)
RoleAndConnections(s) ==
  <<s.isMaster, s.isClient, s.roleAssigned, s.serverConnected,
    s.clientConnected, s.doConnect, s.doScan, s.doRoleNegotiation,
    s.pClient, s.pRemoteService, s.pRemoteCounterCharacteristic,
    s.pRemoteSyncCharacteristic, s.pRemoteTimestampCharacteristic,
    s.targetDevice, s.advertising, s.scanning>>

(* C20  Sync ingestion: an 8-byte write [c, D] with D <= COUNTER_INTERVAL  *)
(* at uptime t leaves localCounter = c and the time of the last tick       *)
(* = t - D modulo 2^32, so that the tick condition next holds exactly from *)
(* t + (COUNTER_INTERVAL - D) on; role and connection state are unchanged. *)
SyncIngestion ==
  [][\A n \in Nodes, value \in SyncValues, stray \in StrayWords :
       /\ SyncWrite(n, value, stray)
       /\ Len(value) = 2
       /\ value[2] <= COUNTER_INTERVAL
       => /\ node'[n].localCounter = value[1]
          /\ node'[n].lastCounterUpdate = Millis(n) - value[2]
          /\ \A k \in 0..3 :
               TickDue([node'[n] EXCEPT !.currentTime = Millis(n) + k * TimeStep])
                 <=> k * TimeStep >= COUNTER_INTERVAL - value[2]
          /\ RoleAndConnections(node'[n]) = RoleAndConnections(node[n])]_vars

(* C20 witness: a CLIENT ingested a packet whose D is larger than its own  *)
(* uptime, so that the time of its last tick wrapped below 0.              *)
SyncIngested ==
  \E n \in Nodes :
    /\ node[n].isClient
    /\ node[n].syncTime >= 0
    /\ node[n].syncPacket.timeSinceLastUpdate = COUNTER_INTERVAL
    /\ node[n].localCounter = 9
    /\ node[n].lastCounterUpdate < 0

(* The time at which the later of the two roles of a pair was assigned.    *)
PairedAt ==
  LET at(n) == bootTime[n] + node[n].currentUptime
  IN IF at(1) >= at(2) THEN at(1) ELSE at(2)

(* A steady pair that has been paired for a sync period (and the loop      *)
(* iteration that ends it).                                                *)
PairedForSyncPeriod ==
  SteadyPair /\ now >= PairedAt + SYNC_INTERVAL + TimeStep

CounterGap ==
  IF node[1].localCounter >= node[2].localCounter
  THEN node[1].localCounter - node[2].localCounter
  ELSE node[2].localCounter - node[1].localCounter

ConnectInFlight(n) ==
  node[n].pc \in {"cts_start", "cts_connect", "cts_discover", "cts_read"}

(* C16  Connect deadline: a connect attempt that has not succeeded within  *)
(* CONNECTION_TIMEOUT of its start is cancelled; no attempt is in flight   *)
(* later than that.                                                        *)
ConnectDeadline ==
  \A n \in Nodes :
    ConnectInFlight(n)
      => node[n].waited * TimeStep <= CONNECTION_TIMEOUT

(* A step in which connectToServer of n returns false: one of its failure  *)
(* exits (lines 236-243, 247-255, 261-269, 301-309) is taken.              *)
NegotiationFails(n) ==
  /\ CTS_Connect(n) \/ CTS_Discover(n) \/ CTS_Read(n)
  /\ node'[n].pc = "top"
  /\ ~node'[n].pClient

(* C17  Negotiation failure handling: after any failure inside the         *)
(* connect/negotiate sequence the node's role is UNASSIGNED, its outbound  *)
(* connection is closed and the client object released, clientConnected is *)
(* false, a re-scan is armed, and the loop goes on.                        *)
NegotiationFailureHandling ==
  [][\A n \in Nodes :
       NegotiationFails(n)
         => /\ RoleOf(node'[n]) = "UNASSIGNED"
            /\ link'[n] = "down"
            /\ ~node'[n].pClient
            /\ ~node'[n].clientConnected
            /\ node'[n].doScan
            /\ node'[n].pc = "top"]_vars

(* C17  witness: a node whose connect attempt found the peer's             *)
(* characteristics and then failed at the read of the timestamp: it is     *)
(* UNASSIGNED, its connection is closed, the client object is released and *)
(* a re-scan is armed.                                                     *)
NegotiationFailedAtRead ==
  \E n \in Nodes :
    /\ node[n].pRemoteTimestampCharacteristic
    /\ ~node[n].pClient
    /\ node[n].pc = "top"
    /\ RoleOf(node[n]) = "UNASSIGNED"
    /\ link[n] = "down"
    /\ ~node[n].clientConnected
    /\ node[n].doScan

(* A step in which the loop of n handles the flag of an inbound connection *)
(* that arrived while n had no role and that is still up.                  *)
HandlesInboundWithoutRole(n) ==
  /\ Loop_Begin(n)
  /\ node[n].doRoleNegotiation
  /\ node[n].inboundWithoutRole
  /\ link[Peer(n)] = "up"

(* C18  Inbound connection without role: an inbound connection that        *)
(* arrived while the node's role was UNASSIGNED, also during a scan or the *)
(* node's own outbound connect, is force-disconnected by the supervisor,   *)
(* the role stays UNASSIGNED and a scan is armed.                          *)
InboundWithoutRoleForced ==
  [][\A n \in Nodes :
       HandlesInboundWithoutRole(n)
         => /\ link'[Peer(n)] = "down"
            /\ RoleOf(node'[n]) = "UNASSIGNED"
            /\ node'[n].doScan \/ node'[n].scanning]_vars

(* The jitter delay scheduled by a disconnect callback of a node with a    *)
(* role (lines 84-85, 105-106) has not elapsed at uptime t.                *)
JitterPending(s, t) ==
  /\ s.randomScanDelay # 0
  /\ LtU(Sub32(t, s.scanDelayStart), s.randomScanDelay)

(* A step in which n starts a scan (line 443).                             *)
ScanStarts(n) == ~node[n].scanning /\ node'[n].scanning

(* C19  Post-disconnect jitter: after a node with a role has lost its peer *)
(* it starts no scan before the scheduled jitter delay has elapsed; the    *)
(* periodic re-scan check arms no scan earlier than that.                  *)
PostDisconnectJitter ==
  [][\A n \in Nodes :
       ScanStarts(n) => ~JitterPending(node[n], Millis(n))]_vars

(* C21  Stale packet clamp: when an ingested sync packet has a time since  *)
(* the last update D > COUNTER_INTERVAL, the time of the last tick is set  *)
(* to t - (COUNTER_INTERVAL - 1) rather than t - D, so that right after    *)
(* the ingestion t - lastCounterUpdate is at most COUNTER_INTERVAL - 1.    *)
StalePacketClamp ==
  [][\A n \in Nodes, value \in SyncValues, stray \in StrayWords :
       /\ SyncWrite(n, value, stray)
       /\ node[n].isClient
       /\ Len(value) = 2
       /\ GtU(value[2], COUNTER_INTERVAL)
       => /\ node'[n].lastCounterUpdate = Sub32(Millis(n), COUNTER_INTERVAL - 1)
          /\ Sub32(Millis(n), node'[n].lastCounterUpdate) <= COUNTER_INTERVAL - 1]_vars

(* The state of n with which the loop reaches line 435 in this step: after *)
(* the tick when one is due, else with the clock just read.                *)
PollBase(n) ==
  IF node[n].pc = "tickBody" THEN TickBody(node[n])
  ELSE [node[n] EXCEPT !.currentTime = Millis(n)]

(* A step of the loop of n that runs the client branch of performSync:     *)
(* the sync period is over, the role is CLIENT and the session is          *)
(* established.                                                            *)
ClientPolls(n) ==
  /\ Loop_TickBody(n) \/ (Loop_Begin(n) /\ node'[n].pc # "tickBody")
  /\ SyncDue(PollBase(n))
  /\ SyncGuard(PollBase(n))
  /\ PollBase(n).isClient /\ ~PollBase(n).isMaster

(* The read of the poll of n returns the 4 bytes of the peer's counter     *)
(* characteristic: the peer serves it and no fault is injected.            *)
PollReads(n) ==
  /\ PeerServes(n)
  /\ env' = env
  /\ node[Peer(n)].counterCharLen = 4

(* C22  Client poll path: on a sync tick in CLIENT role with a live        *)
(* session the node reads the remote counter characteristic; a 4-byte      *)
(* value that differs from localCounter is adopted and republished; an     *)
(* equal value or a read that does not return 4 bytes changes nothing; the *)
(* time of the last tick is never changed by the poll.                     *)
ClientPollPath ==
  [][\A n \in Nodes :
       ClientPolls(n)
         => LET s == PollBase(n)
                v == node[Peer(n)].counterChar
            IN /\ node'[n].lastCounterUpdate = s.lastCounterUpdate
               /\ node'[n].lastSyncTime = s.currentTime
               /\ IF PollReads(n) /\ v # s.localCounter
                  THEN /\ node'[n].localCounter = v
                       /\ node'[n].counterChar = v
                       /\ node'[n].counterCharLen = 4
                  ELSE /\ node'[n].localCounter = s.localCounter
                       /\ node'[n].counterChar = s.counterChar
                       /\ node'[n].counterCharLen = s.counterCharLen]_vars

(* C22 witness: a CLIENT with a session, after the end of a sync period,   *)
(* that never ingested a sync write and holds and publishes a counter its  *)
(* own ticks cannot have produced: it adopted the value it polled.         *)
PollAdopted ==
  \E c \in Nodes :
    /\ node[c].isClient /\ node[c].clientConnected
    /\ node[c].lastSyncTime > 0
    /\ node[c].syncTime < 0
    /\ node[c].localCounter * COUNTER_INTERVAL > Millis(c) + COUNTER_INTERVAL
    /\ node[c].counterChar = node[c].localCounter
    /\ node[c].counterCharLen = 4

(* C23  Publish after sync: when the local counter is overwritten by the   *)
(* value of an ingested sync write, the local counter characteristic is    *)
(* set to the new value at once: published and local counter are equal     *)
(* after the update.                                                       *)
PublishAfterSync ==
  [][\A n \in Nodes, value \in SyncValues, stray \in StrayWords :
       /\ SyncWrite(n, value, stray)
       /\ node[n].isClient
       /\ Len(value) = 2
       => node'[n].counterChar = node'[n].localCounter]_vars

(* A step in which p ingests a sync packet.                                *)
Ingests(p) ==
  /\ node'[p].syncTime >= 0
  /\ node'[p].syncTime # node[p].syncTime

(* A step in which the counter of n changes other than by its own tick or  *)
(* a reset: by a poll of the loop of n.                                    *)
AdoptsByPoll(n) ==
  /\ Loop_Begin(n) \/ Loop_TickBody(n)
  /\ node'[n].localCounter # PollBase(n).localCounter

TimestampFreshness ==
  [][\A n \in Nodes :
       NegotiationEnds(n) => node'[n].remoteUptime = Millis(Peer(n))]_vars

(* C26  Radio state per role: while it holds the role, a MASTER advertises *)
(* and has no scan armed or running, and a CLIENT does not advertise and   *)
(* has no scan armed or running.                                           *)
RadioStatePerRole ==
  \A n \in Nodes :
    Running(n) /\ node[n].roleAssigned
      => /\ ~node[n].doScan /\ ~node[n].scanning
         /\ node[n].isMaster => node[n].advertising
         /\ node[n].isClient => ~node[n].advertising

(* C27  Master authority: the counter and the time of the last tick of a   *)
(* node that is MASTER are changed only by its own tick; a write of a peer *)
(* to its sync characteristic does not overwrite them.                     *)
MasterAuthority ==
  [][\A n \in Nodes :
       /\ node[n].roleAssigned /\ node[n].isMaster
       /\ node'[n].roleAssigned /\ node'[n].isMaster
       /\ \/ node'[n].localCounter # node[n].localCounter
          \/ node'[n].lastCounterUpdate # node[n].lastCounterUpdate
       => Loop_TickBody(n)]_vars

(* C28  Discovery is never ignored while unpaired: a node whose role is    *)
(* UNASSIGNED and that scans accepts an advertisement with the service     *)
(* UUID; it is in no state with clientConnected still true in which        *)
(* onResult ignores every peer as already connected.                       *)
DiscoveryNeverIgnored ==
  \A n \in Nodes :
    Running(n) /\ RoleOf(node[n]) = "UNASSIGNED" /\ node[n].scanning
      => OnResultAccepts(node[n])

(* C29  Peer record is present for the whole connect: while a connect is   *)
(* pending and from the start of connectToServer until its connect call    *)
(* has returned, targetDevice is not null.                                 *)
PeerRecordPresent ==
  \A n \in Nodes :
    \/ node[n].doConnect /\ node[n].pc \in {"top", "tickBody"}
    \/ node[n].pc \in {"cts_start", "cts_connect"}
    => node[n].targetDevice # NoDevice

(* The remote handles of s are all set.                                    *)
RemoteHandles(s) ==
  /\ s.pRemoteService
  /\ s.pRemoteCounterCharacteristic
  /\ s.pRemoteSyncCharacteristic
  /\ s.pRemoteTimestampCharacteristic

(* C30  Disconnect during negotiation: once connectToServer has returned   *)
(* and the disconnect callbacks have run, a node that holds a role with    *)
(* clientConnected true has a live outbound connection and non-null remote *)
(* handles, also when the client-disconnect callback fired while           *)
(* connectToServer was running.                                            *)
RoleHasLiveSession ==
  \A n \in Nodes :
    /\ node[n].pc = "top" /\ TakesEvents(n)
    /\ node[n].roleAssigned /\ node[n].clientConnected
    => link[n] = "up" /\ RemoteHandles(node[n])

(* C31  Every sync packet a MASTER writes has a time since the last update *)
(* strictly smaller than COUNTER_INTERVAL.                                 *)
SyncPacketFresh ==
  [][\A n \in Nodes :
       Ingests(n)
         => LtU(node'[n].syncPacket.timeSinceLastUpdate, COUNTER_INTERVAL)]_vars

(* The three role flags of s agree: roleAssigned exactly when one of       *)
(* isMaster and isClient is set, and never both.                           *)
RoleFlagsAgree(s) ==
  /\ s.roleAssigned <=> (s.isMaster # s.isClient)
  /\ ~(s.isMaster /\ s.isClient)
  /\ ~s.roleAssigned => ~s.isMaster /\ ~s.isClient

(* C32  At every loop-iteration boundary the role flags agree:             *)
(* roleAssigned holds iff exactly one of isMaster and isClient holds, the  *)
(* two never hold together, and without roleAssigned both are false; a     *)
(* call of resetConnectionState at the boundary keeps them so.             *)
RoleFlagConsistency ==
  \A n \in Nodes :
    node[n].pc = "top"
      => RoleFlagsAgree(node[n]) /\ RoleFlagsAgree(resetConnectionState(node[n]))

(* C32 witness: at a boundary, a node whose role an outbound or inbound    *)
(* disconnect withdrew stands beside a peer that still holds its role.     *)
RoleWithdrawnBesideRole ==
  \E n \in Nodes :
    /\ node[n].pc = "top" /\ node[Peer(n)].pc = "top"
    /\ ~node[n].roleAssigned /\ node[n].randomScanDelay # 0
    /\ node[Peer(n)].roleAssigned

=============================================================================
